---- MODULE Spec2Model ----
(***************************************************************************)
(* motomap.py: motorcycle journeys reconstructed from a location-history   *)
(* export.  main() extracts one journey per MOTORCYCLING activity segment, *)
(* attaches the location pings that fall in each journey's tolerance       *)
(* window, sorts, and writes one GeoJSON feature per journey.              *)
(*                                                                         *)
(* Instants are minutes counted from 2022-11-06T00:00 UTC (day 0), the day *)
(* US/Pacific falls back from PDT to PST.  Python dicts are functions with *)
(* string domains, so that `"k" in d` is "k" \in DOMAIN d and a lookup of  *)
(* a missing key is the KeyError the code raises.                          *)
(***************************************************************************)
EXTENDS Integers, Sequences, FiniteSets, TLC

VARIABLES FLAGS, semantic_histories, location_history, journeys, pos, loc,
          features, id, output, pc

vars == <<FLAGS, semantic_histories, location_history, journeys, pos, loc,
          features, id, output, pc>>

(***************************************************************************)
(* Bounds of the model.                                                    *)
(***************************************************************************)
MaxEvents == 2      \* timeline events over all semantic documents
MaxPings == 2       \* entries of Records.json "locations"

(***************************************************************************)
(* Program constants.                                                      *)
(***************************************************************************)
Tolerance == 5                      \* timedelta(minutes=5)
ExcludedDeviceTag == 464913864
E7 == 10000000
DefaultAccuracy == 50

MinutesPerHour == 60
MinutesPerDay == 24 * MinutesPerHour

(***************************************************************************)
(* Time: parsing and the display time zone.                                *)
(***************************************************************************)
\* datetime.strptime(s, "%Y-%m-%d"): a date (its day number) is read as the
\* instant of its midnight.
Strptime(date) == date * MinutesPerDay

\* An ISO timestamp string is <<day, hour, minute, zone marker>>.
\* s[:-1] drops the last character, the zone marker.
DropLast(s) == SubSeq(s, 1, Len(s) - 1)

\* datetime.fromisoformat of a string without zone marker: a naive instant.
FromIsoformat(s) == (s[1] * 24 + s[2]) * MinutesPerHour + s[3]

\* pytz US/Pacific: PDT (UTC-7) until 2022-11-06T09:00 UTC, PST (UTC-8) after.
PDT == 0 - 7 * MinutesPerHour
PST == 0 - 8 * MinutesPerHour
DstEnd == 9 * MinutesPerHour
UtcOffset(t) == IF t < DstEnd THEN PDT ELSE PST

\* utc_timezone.localize(t).astimezone(new_timezone): an aware datetime, the
\* local wall-clock time together with the tzinfo (its UTC offset) in force.
Astimezone(t) == [local |-> t + UtcOffset(t), utcoffset |-> UtcOffset(t)]

\* datetime.__lt__ on aware datetimes: with the same tzinfo the wall-clock
\* times are compared, otherwise the UTC instants.
AwareLess(a, b) ==
    IF a.utcoffset = b.utcoffset
    THEN a.local < b.local
    ELSE a.local - a.utcoffset < b.local - b.utcoffset

NaiveLess(a, b) == a < b

\* list.sort(key=...): stable, ascending by key.  less[m, n] is the
\* comparison key(s[m]) < key(s[n]).
StableSort(s, less) ==
    LET rank(n) == 1 + Cardinality({m \in DOMAIN s :
                        \/ less[m, n]
                        \/ (~less[n, m] /\ m < n)})
    IN  [r \in DOMAIN s |-> s[CHOOSE n \in DOMAIN s : rank(n) = r]]

\* str(id) for id >= 0: the decimal digits.
Digits == <<"0", "1", "2", "3", "4", "5", "6", "7", "8", "9">>
RECURSIVE Str(_)
Str(n) == IF n < 10 THEN <<Digits[n + 1]>>
          ELSE Str(n \div 10) \o <<Digits[(n % 10) + 1]>>

(***************************************************************************)
(* Configuration read from the flags.                                      *)
(***************************************************************************)
\* FLAGS.end_date is <<>> for None, else <<date>>.
utcnow == Strptime(1) + 11 * MinutesPerHour

start_date == Strptime(FLAGS.start_date)
end_date == IF FLAGS.end_date = <<>> THEN utcnow ELSE Strptime(FLAGS.end_date[1])

(***************************************************************************)
(* Journey extraction.                                                     *)
(***************************************************************************)
\* A lookup of a key the timeline event does not have.
ExtractRaises(timeline_event) ==
    /\ "activitySegment" \in DOMAIN timeline_event
    /\ LET activity == timeline_event.activitySegment
       IN  \/ "activityType" \notin DOMAIN activity
           \/ /\ activity.activityType = "MOTORCYCLING"
              /\ \/ "duration" \notin DOMAIN activity
                 \/ "startTimestamp" \notin DOMAIN activity.duration
                 \/ "endTimestamp" \notin DOMAIN activity.duration

SegmentStart(timeline_event) ==
    FromIsoformat(DropLast(timeline_event.activitySegment.duration.startTimestamp))
SegmentEnd(timeline_event) ==
    FromIsoformat(DropLast(timeline_event.activitySegment.duration.endTimestamp))

\* Variant: an end at end_date itself counts as out of range.
OutOfDates_EndExclusive(start, end) == start < start_date \/ end >= end_date

OutOfDates(start, end) == start < start_date \/ end > end_date

\* The event yields a journey (called only when ExtractRaises is false).
YieldsJourney(timeline_event) ==
    /\ "activitySegment" \in DOMAIN timeline_event
    /\ timeline_event.activitySegment.activityType = "MOTORCYCLING"
    /\ ~OutOfDates(SegmentStart(timeline_event), SegmentEnd(timeline_event))

NewJourney(timeline_event) ==
    [startTime |-> SegmentStart(timeline_event),
     endTime |-> SegmentEnd(timeline_event),
     waypoints |-> <<>>]

\* Position <<d, e>> of the nested loops over documents and their events.
RECURSIVE FirstDocFrom(_)
FirstDocFrom(d) ==
    IF d > Len(semantic_histories) THEN d
    ELSE IF Len(semantic_histories[d].timelineObjects) > 0 THEN d
    ELSE FirstDocFrom(d + 1)

AfterEvent(p) ==
    IF p[2] < Len(semantic_histories[p[1]].timelineObjects)
    THEN <<p[1], p[2] + 1>>
    ELSE <<FirstDocFrom(p[1] + 1), 1>>

ExtractEvent ==
    /\ pc = "extract"
    /\ pos[1] <= Len(semantic_histories)
    /\ LET timeline_event == semantic_histories[pos[1]].timelineObjects[pos[2]]
       IN  IF ExtractRaises(timeline_event)
           THEN /\ pc' = "failed"
                /\ UNCHANGED <<journeys, pos>>
           ELSE /\ journeys' = IF YieldsJourney(timeline_event)
                               THEN Append(journeys, NewJourney(timeline_event))
                               ELSE journeys
                /\ pos' = AfterEvent(pos)
                /\ pc' = pc
    /\ UNCHANGED <<FLAGS, semantic_histories, location_history, loc, features,
                   id, output>>

LoadTimezone ==
    /\ pc = "extract"
    /\ pos[1] > Len(semantic_histories)
    /\ pc' = "correlate"
    /\ UNCHANGED <<FLAGS, semantic_histories, location_history, journeys, pos,
                   loc, features, id, output>>

(***************************************************************************)
(* Ping correlation.                                                       *)
(***************************************************************************)
PingTime(location) == FromIsoformat(DropLast(location.timestamp))

\* Variant: the threshold itself is rejected.
Discarded_AccuracyExclusive(location, timestamp) ==
    \/ timestamp < start_date
    \/ timestamp > end_date
    \/ ("deviceTag" \in DOMAIN location /\ location.deviceTag = ExcludedDeviceTag)
    \/ "latitudeE7" \notin DOMAIN location
    \/ "longitudeE7" \notin DOMAIN location
    \/ "accuracy" \notin DOMAIN location
    \/ location.accuracy >= FLAGS.accuracy

\* Variant: no device is excluded.
Discarded_NoTagRule(location, timestamp) ==
    \/ timestamp < start_date
    \/ timestamp > end_date
    \/ "latitudeE7" \notin DOMAIN location
    \/ "longitudeE7" \notin DOMAIN location
    \/ "accuracy" \notin DOMAIN location
    \/ location.accuracy > FLAGS.accuracy

\* The condition of the `continue`.
Discarded(location, timestamp) ==
    \/ timestamp < start_date
    \/ timestamp > end_date
    \/ ("deviceTag" \in DOMAIN location /\ location.deviceTag = ExcludedDeviceTag)
    \/ "latitudeE7" \notin DOMAIN location
    \/ "longitudeE7" \notin DOMAIN location
    \/ "accuracy" \notin DOMAIN location
    \/ location.accuracy > FLAGS.accuracy

\* Variant: the window includes its two end points.
InWindow_Inclusive(timestamp, journey) ==
    /\ timestamp >= journey.startTime - Tolerance
    /\ timestamp <= journey.endTime + Tolerance

InWindow(timestamp, journey) ==
    /\ timestamp > journey.startTime - Tolerance
    /\ timestamp < journey.endTime + Tolerance

\* x / 10000000: decimal degrees, kept as the exact fraction.
Degrees(e7) == [num |-> e7, den |-> E7]

Latlon(location, timestamp) ==
    [lat |-> Degrees(location.latitudeE7),
     lon |-> Degrees(location.longitudeE7),
     time |-> Astimezone(timestamp)]

\* Variant: the first journey whose window holds the ping wins.
Attach_FirstMatch(location, timestamp) ==
    [n \in DOMAIN journeys |->
        IF /\ InWindow(timestamp, journeys[n])
           /\ \A m \in 1..(n - 1) : ~InWindow(timestamp, journeys[m])
        THEN [journeys[n] EXCEPT
                !.waypoints = Append(@, Latlon(location, timestamp))]
        ELSE journeys[n]]

Attach(location, timestamp) ==
    [n \in DOMAIN journeys |->
        IF InWindow(timestamp, journeys[n])
        THEN [journeys[n] EXCEPT
                !.waypoints = Append(@, Latlon(location, timestamp))]
        ELSE journeys[n]]

CorrelatePing ==
    /\ pc = "correlate"
    /\ loc <= Len(location_history.locations)
    /\ LET location == location_history.locations[loc]
       IN  IF "timestamp" \notin DOMAIN location
           THEN /\ pc' = "failed"
                /\ UNCHANGED <<journeys, loc>>
           ELSE /\ journeys' = IF Discarded(location, PingTime(location))
                               THEN journeys
                               ELSE Attach(location, PingTime(location))
                /\ loc' = loc + 1
                /\ pc' = pc
    /\ UNCHANGED <<FLAGS, semantic_histories, location_history, pos, features,
                   id, output>>

(***************************************************************************)
(* Assembly.                                                               *)
(***************************************************************************)
\* Variant: latest journey first.
JourneyLess_Descending(a, b) == NaiveLess(b.startTime, a.startTime)
JourneyLess(a, b) == NaiveLess(a.startTime, b.startTime)
\* Variant: the wall-clock times are compared, whatever the UTC offsets.
WaypointLess_WallClock(a, b) == a.time.local < b.time.local
WaypointLess(a, b) == AwareLess(a.time, b.time)

SortJourneys ==
    /\ pc = "correlate"
    /\ loc > Len(location_history.locations)
    /\ journeys' = StableSort(journeys,
                        [m, n \in DOMAIN journeys |->
                            JourneyLess(journeys[m], journeys[n])])
    /\ features' = <<>>
    /\ id' = 1
    /\ pc' = "assemble"
    /\ UNCHANGED <<FLAGS, semantic_histories, location_history, pos, loc, output>>

Coordinates(waypoints) ==
    [k \in DOMAIN waypoints |-> <<waypoints[k].lon, waypoints[k].lat>>]

Feature(journey, n) ==
    [id |-> Str(n),
     type |-> "Feature",
     properties |-> [ranking |-> 0,
                     startDate |-> Astimezone(journey.startTime),
                     endDate |-> Astimezone(journey.endTime)],
     geometry |-> [type |-> "LineString",
                   coordinates |-> Coordinates(journey.waypoints)]]

AssembleFeature ==
    /\ pc = "assemble"
    /\ Len(features) < Len(journeys)
    /\ LET n == Len(features) + 1
           waypoints == journeys[n].waypoints
           sorted == StableSort(waypoints,
                        [k, l \in DOMAIN waypoints |->
                            WaypointLess(waypoints[k], waypoints[l])])
       IN  /\ journeys' = [journeys EXCEPT ![n].waypoints = sorted]
           /\ features' = Append(features, Feature(journeys'[n], id))
    /\ id' = id + 1
    /\ UNCHANGED <<FLAGS, semantic_histories, location_history, pos, loc,
                   output, pc>>

WriteOutput ==
    /\ pc = "assemble"
    /\ Len(features) = Len(journeys)
    /\ output' = Append(output, [type |-> "FeatureCollection",
                                 features |-> features])
    /\ pc' = "done"
    /\ UNCHANGED <<FLAGS, semantic_histories, location_history, journeys, pos,
                   loc, features, id>>

Next ==
    \/ ExtractEvent
    \/ LoadTimezone
    \/ CorrelatePing
    \/ SortJourneys
    \/ AssembleFeature
    \/ WriteOutput

(***************************************************************************)
(* Inputs.                                                                 *)
(***************************************************************************)
Iso(t) == <<t \div MinutesPerDay, (t % MinutesPerDay) \div MinutesPerHour,
            t % MinutesPerHour, "Z">>

Segment(type, start, end) ==
    [activitySegment |->
        [activityType |-> type,
         duration |-> [startTimestamp |-> Iso(start), endTimestamp |-> Iso(end)]]]

RideA == Segment("MOTORCYCLING", 530, 550)      \* 08:50-09:10
RideB == Segment("MOTORCYCLING", 540, 570)      \* 09:00-09:30, overlaps RideA
RideFirst == Segment("MOTORCYCLING", 0, 20)     \* starts at start_date exactly
RideLast == Segment("MOTORCYCLING", MinutesPerDay - 20, MinutesPerDay)
RideBefore == Segment("MOTORCYCLING", 0 - 10, 20)
RideEndDay == Segment("MOTORCYCLING", MinutesPerDay + 530, MinutesPerDay + 550)
Walk == Segment("WALKING", 530, 550)
WalkNoEnd ==
    [activitySegment |->
        [activityType |-> "WALKING", duration |-> [startTimestamp |-> Iso(530)]]]
RideNoEnd ==
    [activitySegment |->
        [activityType |-> "MOTORCYCLING", duration |-> [startTimestamp |-> Iso(530)]]]
RideNoStart ==
    [activitySegment |->
        [activityType |-> "MOTORCYCLING", duration |-> [endTimestamp |-> Iso(550)]]]
Visit == [placeVisit |-> [location |-> "home"]]

\* A location entry; the latitude carries the serial k of the entry kind.
Fix(k, t, accuracy) ==
    [timestamp |-> Iso(t), latitudeE7 |-> 377000000 + k,
     longitudeE7 |-> 0 - 1224000000 - t, accuracy |-> accuracy]
OtherDeviceTag == ExcludedDeviceTag + 1
Tagged(location, tag) ==
    [k \in DOMAIN location \cup {"deviceTag"} |->
        IF k = "deviceTag" THEN tag ELSE location[k]]
Without(location, key) == [k \in DOMAIN location \ {key} |-> location[k]]

BoundedSeq(S, n) == UNION {[1..m -> S] : m \in 0..n}

\* The loaded monthly documents: the events split over two documents.
Histories(Events) ==
    UNION {{<<[timelineObjects |-> SubSeq(evs, 1, c)],
              [timelineObjects |-> SubSeq(evs, c + 1, Len(evs))]>> :
                c \in 0..Len(evs)} : evs \in BoundedSeq(Events, MaxEvents)}

\* Pings[a] are the kinds of location entries under accuracy threshold a.
InitWith(Events, Pings, Accuracies, EndDates) ==
    /\ FLAGS \in [start_date : {0}, end_date : EndDates, accuracy : Accuracies]
    /\ semantic_histories \in Histories(Events)
    /\ location_history \in
          {[locations |-> l] : l \in BoundedSeq(Pings[FLAGS.accuracy], MaxPings)}
    /\ journeys = <<>>
    /\ pos = <<FirstDocFrom(1), 1>>
    /\ loc = 1
    /\ features = <<>>
    /\ id = 0
    /\ output = <<>>
    /\ pc = "extract"

ExtractEvents ==
    {RideA, RideB, RideFirst, RideLast, RideBefore, RideEndDay, Walk, WalkNoEnd,
     RideNoEnd, RideNoStart, Visit}
FewPings(a) == {Fix(1, 545, a), Without(Fix(2, 545, a), "timestamp")}

WindowEvents == {RideA, RideB}
WindowPings(a) ==
    {Fix(1, 524, a), Fix(2, 525, a), Fix(3, 526, a), Fix(4, 545, a),
     Fix(5, 555, a), Fix(6, 574, a), Fix(7, 575, a), Fix(8, 545, a + 1)}

FilterEvents == {RideA, RideB}
FilterPings(a) ==
    {Fix(1, 545, a), Fix(2, 545, a + 1), Fix(3, 526, a - 1),
     Tagged(Fix(4, 545, a), ExcludedDeviceTag),
     Tagged(Fix(5, 545, a), OtherDeviceTag),
     Without(Fix(6, 545, a), "latitudeE7"),
     Without(Fix(7, 545, a), "longitudeE7"),
     Without(Fix(8, 545, a), "accuracy"),
     Without(Fix(9, 545, a), "timestamp")}

\* Segments and pings at the two ends of the date range.
DatesEvents == {RideFirst, RideLast, RideEndDay}
DatesPings(a) ==
    {Fix(1, 0 - 3, a), Fix(2, 0, a), Fix(3, MinutesPerDay, a),
     Fix(4, MinutesPerDay + 2, a)}

Accuracies == {10, DefaultAccuracy}

Init ==
    InitWith(ExtractEvents, [a \in {DefaultAccuracy} |-> FewPings(a)],
             {DefaultAccuracy}, {<<1>>, <<>>})
InitWindow ==
    InitWith(WindowEvents, [a \in {DefaultAccuracy} |-> WindowPings(a)],
             {DefaultAccuracy}, {<<1>>})
InitFilter ==
    InitWith(FilterEvents, [a \in Accuracies |-> FilterPings(a)],
             Accuracies, {<<1>>})
InitDates ==
    InitWith(DatesEvents, [a \in {DefaultAccuracy} |-> DatesPings(a)],
             {DefaultAccuracy}, {<<1>>})

Spec == Init /\ [][Next]_vars
SpecWindow == InitWindow /\ [][Next]_vars
SpecFilter == InitFilter /\ [][Next]_vars
SpecDates == InitDates /\ [][Next]_vars

(***************************************************************************)
(* The record set and the filter and window rules as the properties read   *)
(* them, stated on the inputs.                                             *)
(***************************************************************************)
Locations == location_history.locations

RECURSIVE EventsFrom(_)
EventsFrom(d) ==
    IF d > Len(semantic_histories) THEN <<>>
    ELSE semantic_histories[d].timelineObjects \o EventsFrom(d + 1)
AllEvents == EventsFrom(1)

\* The events the extraction loop has gone past.
EventsProcessed ==
    SubSeq(AllEvents, 1, Len(AllEvents) - Len(EventsFrom(pos[1])) +
                         (IF pos[1] <= Len(semantic_histories) THEN pos[2] - 1 ELSE 0))

\* The pings the correlation loop has gone past.
PingsProcessed == 1..(loc - 1)

IsMotorcycling(ev) ==
    /\ "activitySegment" \in DOMAIN ev
    /\ ev.activitySegment.activityType = "MOTORCYCLING"

LacksTimestamps(ev) ==
    \/ "startTimestamp" \notin DOMAIN ev.activitySegment.duration
    \/ "endTimestamp" \notin DOMAIN ev.activitySegment.duration

Qualifies(ev) ==
    /\ IsMotorcycling(ev)
    /\ SegmentStart(ev) >= start_date
    /\ SegmentEnd(ev) <= end_date

Bounds(ev) == <<SegmentStart(ev), SegmentEnd(ev)>>
JourneyBounds(journey) == <<journey.startTime, journey.endTime>>

HasAllFields(p) ==
    {"timestamp", "latitudeE7", "longitudeE7", "accuracy"} \subseteq DOMAIN p

HasTag(p, tag) == "deviceTag" \in DOMAIN p /\ p.deviceTag = tag

PassesFilters(p) ==
    /\ HasAllFields(p)
    /\ PingTime(p) >= start_date
    /\ PingTime(p) <= end_date
    /\ ~HasTag(p, ExcludedDeviceTag)
    /\ p.accuracy <= FLAGS.accuracy

StrictlyInside(t, journey) ==
    /\ journey.startTime - Tolerance < t
    /\ t < journey.endTime + Tolerance

WaypointOf(p) ==
    [lat |-> [num |-> p.latitudeE7, den |-> E7],
     lon |-> [num |-> p.longitudeE7, den |-> E7],
     time |-> Astimezone(PingTime(p))]

Occurrences(s, x) == Cardinality({k \in DOMAIN s : s[k] = x})

\* The processed pings that belong to the journey.
Matched(journey) ==
    {n \in PingsProcessed :
        /\ PassesFilters(Locations[n])
        /\ StrictlyInside(PingTime(Locations[n]), journey)}

\* The journey has a waypoint with the latitude of ping p.
Contributes(p, journey) ==
    \E k \in DOMAIN journey.waypoints :
        journey.waypoints[k].lat.num = p.latitudeE7

Instant(aware) == aware.local - aware.utcoffset

(***************************************************************************)
(* C1: matching is complete and non-exclusive: every processed ping that   *)
(* passes the filters and lies strictly inside the tolerance window of a   *)
(* journey is a waypoint of that journey, once for each time it occurs in  *)
(* the input, and so of every journey whose window holds it.               *)
(***************************************************************************)
C1_MatchingComplete ==
    \A j \in DOMAIN journeys : \A n \in Matched(journeys[j]) :
        Occurrences(journeys[j].waypoints, WaypointOf(Locations[n])) >=
            Cardinality({m \in PingsProcessed : Locations[m] = Locations[n]})

\* A ping inside the windows of two different journeys is in both.
C1_Witness ==
    /\ pc = "done"
    /\ \E j1, j2 \in DOMAIN journeys : \E n \in DOMAIN Locations :
          /\ journeys[j1].startTime # journeys[j2].startTime
          /\ n \in Matched(journeys[j1]) \cap Matched(journeys[j2])
          /\ Contributes(Locations[n], journeys[j1])
          /\ Contributes(Locations[n], journeys[j2])

(***************************************************************************)
(* C2: matching is sound: in every state each waypoint of a journey is the *)
(* waypoint of a processed ping that passes every filter and lies strictly *)
(* inside the journey's window, and a journey has no more waypoints than   *)
(* such pings; a ping at the window's end points or outside it, and a      *)
(* discarded ping, is no waypoint of the journey.                          *)
(***************************************************************************)
C2_MatchingSound ==
    \A j \in DOMAIN journeys :
        /\ Len(journeys[j].waypoints) <= Cardinality(Matched(journeys[j]))
        /\ \A k \in DOMAIN journeys[j].waypoints :
              \E n \in Matched(journeys[j]) :
                  journeys[j].waypoints[k] = WaypointOf(Locations[n])
        /\ \A n \in PingsProcessed \ Matched(journeys[j]) :
              "latitudeE7" \in DOMAIN Locations[n] =>
                  ~Contributes(Locations[n], journeys[j])

\* A journey with a waypoint, and a ping exactly at an end of its window.
C2_Witness ==
    /\ pc = "done"
    /\ \E j \in DOMAIN journeys : \E n \in DOMAIN Locations :
          /\ Len(journeys[j].waypoints) > 0
          /\ PassesFilters(Locations[n])
          /\ \/ PingTime(Locations[n]) = journeys[j].startTime - Tolerance
             \/ PingTime(Locations[n]) = journeys[j].endTime + Tolerance

(***************************************************************************)
(* C3: the accuracy filter includes the configured threshold: a processed  *)
(* ping that passes the other filters is a waypoint of every journey whose *)
(* window holds it when its accuracy equals FLAGS.accuracy, and of no      *)
(* journey when its accuracy is FLAGS.accuracy + 1 or more.                *)
(***************************************************************************)
PassesOtherThanAccuracy(p) ==
    /\ HasAllFields(p)
    /\ PingTime(p) >= start_date
    /\ PingTime(p) <= end_date
    /\ ~HasTag(p, ExcludedDeviceTag)

C3_AccuracyBoundaryInclusive ==
    \A n \in PingsProcessed :
        LET p == Locations[n]
        IN  PassesOtherThanAccuracy(p) =>
              /\ p.accuracy = FLAGS.accuracy =>
                    \A j \in DOMAIN journeys :
                        StrictlyInside(PingTime(p), journeys[j]) =>
                            Occurrences(journeys[j].waypoints, WaypointOf(p)) > 0
              /\ p.accuracy >= FLAGS.accuracy + 1 =>
                    \A j \in DOMAIN journeys : ~Contributes(p, journeys[j])

\* One ping at the threshold attached, one a meter worse in a window.
C3_Witness ==
    /\ pc = "done"
    /\ \E j \in DOMAIN journeys : \E n, m \in DOMAIN Locations :
          /\ PassesOtherThanAccuracy(Locations[n])
          /\ Locations[n].accuracy = FLAGS.accuracy
          /\ Contributes(Locations[n], journeys[j])
          /\ PassesOtherThanAccuracy(Locations[m])
          /\ Locations[m].accuracy = FLAGS.accuracy + 1
          /\ StrictlyInside(PingTime(Locations[m]), journeys[j])

(***************************************************************************)
(* C4, as stated: whatever identifier is configured as the excluded one, a *)
(* ping carrying it is a waypoint of no journey.  The run reads no such    *)
(* configuration, so this is: for every identifier d, a processed ping     *)
(* with deviceTag d is a waypoint of no journey.                           *)
(***************************************************************************)
DeviceTags == {ExcludedDeviceTag, OtherDeviceTag}

C4_AnyConfiguredTagRejected ==
    \A d \in DeviceTags : \A n \in PingsProcessed :
        (HasTag(Locations[n], d) /\ "latitudeE7" \in DOMAIN Locations[n]) =>
            \A j \in DOMAIN journeys : ~Contributes(Locations[n], journeys[j])

(***************************************************************************)
(* C4, amended: the excluded identifier is the fixed value 464913864: a    *)
(* processed ping with that deviceTag is a waypoint of no journey,         *)
(* whatever its accuracy and timestamp; a ping with another deviceTag or   *)
(* none that passes the other filters is a waypoint of every journey whose *)
(* window holds it.                                                        *)
(***************************************************************************)
PassesOtherThanTag(p) ==
    /\ HasAllFields(p)
    /\ PingTime(p) >= start_date
    /\ PingTime(p) <= end_date
    /\ p.accuracy <= FLAGS.accuracy

C4_FixedTagRejected ==
    \A n \in PingsProcessed :
        LET p == Locations[n]
        IN  /\ (HasTag(p, ExcludedDeviceTag) /\ "latitudeE7" \in DOMAIN p) =>
                  \A j \in DOMAIN journeys : ~Contributes(p, journeys[j])
            /\ (~HasTag(p, ExcludedDeviceTag) /\ PassesOtherThanTag(p)) =>
                  \A j \in DOMAIN journeys :
                      StrictlyInside(PingTime(p), journeys[j]) =>
                          Occurrences(journeys[j].waypoints, WaypointOf(p)) > 0

\* A ping of the excluded device in a window, and one of another device
\* attached.
C4_Witness ==
    /\ pc = "done"
    /\ \E j \in DOMAIN journeys : \E n, m \in DOMAIN Locations :
          /\ HasTag(Locations[n], ExcludedDeviceTag)
          /\ PassesOtherThanTag(Locations[n])
          /\ StrictlyInside(PingTime(Locations[n]), journeys[j])
          /\ HasTag(Locations[m], OtherDeviceTag)
          /\ Contributes(Locations[m], journeys[j])

(***************************************************************************)
(* C5: the written feature collection has exactly one feature for each     *)
(* timeline event that qualifies for a journey (also for a journey without *)
(* waypoints), the features are in non-decreasing order of journey start,  *)
(* and the feature at position i has the decimal string of i as its id.    *)
(***************************************************************************)
DigitValue(c) == CHOOSE d \in 0..9 : Digits[d + 1] = c
RECURSIVE DecimalValue(_)
DecimalValue(s) ==
    IF Len(s) = 0 THEN 0
    ELSE 10 * DecimalValue(SubSeq(s, 1, Len(s) - 1)) + DigitValue(s[Len(s)])
IsDecimalOf(s, n) ==
    /\ Len(s) >= 1
    /\ \A k \in DOMAIN s : \E d \in 0..9 : Digits[d + 1] = s[k]
    /\ Len(s) > 1 => s[1] # "0"
    /\ DecimalValue(s) = n

FeatureBounds(f) == <<Instant(f.properties.startDate), Instant(f.properties.endDate)>>

C5_OneFeaturePerJourney ==
    pc = "done" =>
        LET fs == output[1].features
            qualifying == SelectSeq(AllEvents, Qualifies)
        IN  /\ Len(output) = 1
            /\ Len(fs) = Len(qualifying)
            /\ \A q \in DOMAIN qualifying :
                  Cardinality({i \in DOMAIN fs :
                                  FeatureBounds(fs[i]) = Bounds(qualifying[q])}) =
                  Cardinality({r \in DOMAIN qualifying :
                                  Bounds(qualifying[r]) = Bounds(qualifying[q])})
            /\ \A i \in DOMAIN fs : IsDecimalOf(fs[i].id, i)
            /\ \A i \in 1..(Len(fs) - 1) :
                  FeatureBounds(fs[i])[1] <= FeatureBounds(fs[i + 1])[1]

\* Two journeys extracted latest first, one of them without waypoints.
C5_Witness ==
    /\ pc = "done"
    /\ Len(output[1].features) >= 2
    /\ LET qualifying == SelectSeq(AllEvents, Qualifies)
       IN  Bounds(qualifying[1])[1] > Bounds(qualifying[2])[1]
    /\ \E i, k \in DOMAIN output[1].features :
          /\ Len(output[1].features[i].geometry.coordinates) = 0
          /\ Len(output[1].features[k].geometry.coordinates) > 0

(***************************************************************************)
(* C6: in the written collection the coordinates of each feature are the   *)
(* matched pings of its journey, each exactly once, as [lon, lat] pairs in *)
(* non-decreasing order of time.                                           *)
(***************************************************************************)
LonLat(p) == <<[num |-> p.longitudeE7, den |-> E7], [num |-> p.latitudeE7, den |-> E7]>>

C6_CoordinatesAreSortedWaypoints ==
    pc = "done" =>
        \A i \in DOMAIN output[1].features :
            LET coordinates == output[1].features[i].geometry.coordinates
                matched == Matched(journeys[i])
            IN  /\ FeatureBounds(output[1].features[i]) = JourneyBounds(journeys[i])
                /\ Len(coordinates) = Cardinality(matched)
                /\ Len(coordinates) = Len(journeys[i].waypoints)
                /\ \E from \in [DOMAIN coordinates -> matched] :
                      /\ \A k, l \in DOMAIN coordinates :
                            from[k] = from[l] => k = l
                      /\ \A k \in DOMAIN coordinates :
                            coordinates[k] = LonLat(Locations[from[k]])
                      /\ \A k \in 1..(Len(coordinates) - 1) :
                            PingTime(Locations[from[k]]) <=
                                PingTime(Locations[from[k + 1]])

\* A feature of two coordinates whose pings came latest first, one before
\* and one after the change of UTC offset.
C6_Witness ==
    /\ pc = "done"
    /\ \E i \in DOMAIN output[1].features : \E n, m \in Matched(journeys[i]) :
          /\ Len(output[1].features[i].geometry.coordinates) = 2
          /\ n < m
          /\ PingTime(Locations[n]) > PingTime(Locations[m])
          /\ UtcOffset(PingTime(Locations[n])) # UtcOffset(PingTime(Locations[m]))

(***************************************************************************)
(* C7: up to the sort, the journeys are, in order, one for each processed  *)
(* timeline event that has a MOTORCYCLING activity segment starting not    *)
(* before start_date and ending not after end_date, with that segment's    *)
(* bounds, duplicates included; during extraction every journey has an     *)
(* empty waypoint list.                                                    *)
(***************************************************************************)
C7_OneJourneyPerQualifyingSegment ==
    pc \in {"extract", "correlate", "failed"} =>
        LET qualifying == SelectSeq(EventsProcessed, Qualifies)
        IN  /\ Len(journeys) = Len(qualifying)
            /\ \A j \in DOMAIN journeys :
                  JourneyBounds(journeys[j]) = Bounds(qualifying[j])
            /\ pc = "extract" =>
                  \A j \in DOMAIN journeys : journeys[j].waypoints = <<>>

\* Extraction over: the same segment twice gave two journeys, or a segment
\* ending at end_date exactly gave one beside an event that gave none.
C7_Witness ==
    /\ pc = "correlate"
    /\ loc = 1
    /\ \/ /\ Len(journeys) = 2
          /\ JourneyBounds(journeys[1]) = JourneyBounds(journeys[2])
       \/ /\ Len(journeys) = 1
          /\ journeys[1].endTime = end_date
          /\ Len(AllEvents) = 2

(***************************************************************************)
(* C8: a ping that lacks timestamp, latitudeE7, longitudeE7 or accuracy is *)
(* silently excluded: handling it raises no error.                         *)
(***************************************************************************)
FailedAtPing(n) ==
    /\ pc = "failed"
    /\ pos[1] > Len(semantic_histories)
    /\ loc = n

C8_MissingFieldsSilentlyExcluded ==
    \A n \in DOMAIN Locations :
        ~HasAllFields(Locations[n]) => ~FailedAtPing(n)

(***************************************************************************)
(* C9: start_date and end_date are an inclusive range of dates: a          *)
(* MOTORCYCLING segment that lies within the days from the start date to   *)
(* the end date, the whole end date included, yields a journey, and a ping *)
(* of those days that passes the other filters is a waypoint of every      *)
(* journey whose window holds it.                                          *)
(***************************************************************************)
EndOfEndDate == Strptime(FLAGS.end_date[1] + 1)

C9_DateRangeInclusive ==
    FLAGS.end_date # <<>> =>
        /\ \A e \in DOMAIN EventsProcessed :
              LET ev == EventsProcessed[e]
              IN  (/\ IsMotorcycling(ev)
                   /\ SegmentStart(ev) >= start_date
                   /\ SegmentEnd(ev) < EndOfEndDate) =>
                      \E j \in DOMAIN journeys : JourneyBounds(journeys[j]) = Bounds(ev)
        /\ \A n \in PingsProcessed :
              LET p == Locations[n]
              IN  (/\ HasAllFields(p)
                   /\ ~HasTag(p, ExcludedDeviceTag)
                   /\ p.accuracy <= FLAGS.accuracy
                   /\ PingTime(p) >= start_date
                   /\ PingTime(p) < EndOfEndDate) =>
                      \A j \in DOMAIN journeys :
                          StrictlyInside(PingTime(p), journeys[j]) =>
                              Contributes(p, journeys[j])

(***************************************************************************)
(* C10: no partial success: the run fails only during extraction and only  *)
(* when a MOTORCYCLING segment lacks its startTimestamp or endTimestamp,   *)
(* and then nothing is written; a segment of another type never fails it.  *)
(***************************************************************************)
MalformedSegment(ev) == IsMotorcycling(ev) /\ LacksTimestamps(ev)

C10_NoPartialSuccess ==
    /\ pc = "failed" =>
          /\ pos[1] <= Len(semantic_histories)
          /\ MalformedSegment(semantic_histories[pos[1]].timelineObjects[pos[2]])
    /\ (\E e \in DOMAIN AllEvents : MalformedSegment(AllEvents[e])) =>
          (output = <<>> /\ pc # "done" /\ loc = 1)
====
